---- MODULE Spec2Model ----
(***************************************************************************)
(* Navigation state machine of EmailViewer (utils.py): the two sorted file *)
(* lists, the current mode, the current index, the previous/next buttons,  *)
(* the info label and the output area, driven by the four button handlers  *)
(* and by _load_email_by_index.                                            *)
(***************************************************************************)
EXTENDS Integers, Sequences, FiniteSets, TLC

\* Largest number of files in one category.
MaxFiles == 3

\* The file names of a category, in sorted order ("1.txt" < "2.txt" < ...).
FileNames == [i \in 1..(MaxFiles + 1) |-> ToString(i) \o ".txt"]

\* The sorted file lists a viewer can be constructed with: 0..MaxFiles files.
Catalogs == {[i \in 1..k |-> FileNames[i]] : k \in 0..MaxFiles}

\* The integer arguments _load_email_by_index is called with.
IndexArgs == (0 - 2)..(MaxFiles + 1)

VARIABLES
  ham_files,      \* self.ham_files
  spam_files,     \* self.spam_files
  current_mode,   \* self.current_mode: "ham" or "spam"
  current_index,  \* self.current_index: None or an integer
  prev_disabled,  \* self.prev_button.disabled
  next_disabled,  \* self.next_button.disabled
  mode_button,    \* self.mode_button.description
  info_label,     \* self.info_label.value
  output,         \* what self.output shows
  last_op,        \* the handler that ran last
  last_arg,       \* the index it passed to _load_email_by_index
  last_read,      \* "none", "ok" or "failed": the open()/read() of the last handler
  raised,         \* the exception that escaped the last handler, or "none"
  mode_before,    \* self.current_mode when the last handler was entered
  trail,          \* the last two handlers, each with self.current_index at its entry
  ham_dir,        \* the file system under ham_dir: whether it exists, the files found
  spam_dir        \* the file system under spam_dir

vars == <<ham_files, spam_files, current_mode, current_index, prev_disabled,
          next_disabled, mode_button, info_label, output, last_op, last_arg,
          last_read, raised, mode_before, trail, ham_dir, spam_dir>>

\* The widgets and fields a handler can change.
nav == <<current_mode, current_index, prev_disabled, next_disabled,
         mode_button, info_label, output>>

\* The trail after a handler op entered with self.current_index = index: the
\* entry of the handler before it, then its own.
pushed(t, op, index) ==
  IF t = <<>>
  THEN <<[op |-> op, index |-> index]>>
  ELSE <<t[Len(t)], [op |-> op, index |-> index]>>

\* Python's None for current_index; an integer i is held as <<i>>.
None == <<>>

Some(i) == <<i>>

\* Whether list[index] is defined for a Python list (it raises IndexError if not).
subscript_ok(list, index) == 0 - Len(list) <= index /\ index < Len(list)

\* list[index] of a Python list: 0-based, a negative index counts from the end.
At(list, index) == IF index < 0 THEN list[Len(list) + index + 1] ELSE list[index + 1]

\* The info label's "click the button" text of a mode.
PromptLabel(mode) ==
  [kind |-> "prompt", mode |-> mode, pos |-> 0, total |-> 0, file_name |-> ""]

\* The info label's "Email pos/total | file_name" text.
EmailLabel(mode, index, total, file_name) ==
  [kind |-> "email", mode |-> mode, pos |-> index + 1, total |-> total,
   file_name |-> file_name]

\* _get_current_file_list
file_list == IF current_mode = "ham" THEN ham_files ELSE spam_files

\* randint with the upper end excluded, as random.randrange would be.
randint_exclusive(a, b) == a..(b - 1)

\* random.randint(a, b): the values it can return; none when a > b, where it
\* raises ValueError.
randint(a, b) == a..b

\* The early-return test without its index < 0 half.
out_of_range_no_lower(index, n) == index >= n

\* The early-return test of _load_email_by_index, n = len(file_list).
out_of_range(index, n) == index < 0 \/ index >= n

\* The previous button given the next button's test.
prev_button_disabled_at_last(index, n) == index = n - 1

\* self.prev_button.disabled after a successful read.
prev_button_disabled(index, n) == index = 0

\* The next button never disabled.
next_button_disabled_never(index, n) == FALSE

\* self.next_button.disabled after a successful read.
next_button_disabled(index, n) == index = n - 1

\* The body of _load_email_by_index(index); read_ok says whether open()/read()
\* succeed.
load_email_by_index(index, read_ok) ==
  IF out_of_range(index, Len(file_list))
  THEN /\ UNCHANGED nav
       /\ last_read' = "none"
       /\ raised' = "none"
  ELSE /\ current_index' = Some(index)
       /\ UNCHANGED <<current_mode, mode_button>>
       /\ IF ~subscript_ok(file_list, index)
          THEN /\ raised' = "IndexError"
               /\ last_read' = "none"
               /\ UNCHANGED <<info_label, prev_disabled, next_disabled, output>>
          ELSE IF read_ok
          THEN /\ info_label' = EmailLabel(current_mode, index, Len(file_list),
                                           At(file_list, index))
               /\ prev_disabled' = prev_button_disabled(index, Len(file_list))
               /\ next_disabled' = next_button_disabled(index, Len(file_list))
               /\ output' = [kind |-> "content", file_name |-> At(file_list, index)]
               /\ last_read' = "ok"
               /\ raised' = "none"
          ELSE /\ output' = [kind |-> "error", file_name |-> At(file_list, index)]
               /\ last_read' = "failed"
               /\ raised' = "none"
               /\ UNCHANGED <<info_label, prev_disabled, next_disabled>>

\* A direct call of _load_email_by_index(index).
_load_email_by_index ==
  \E index \in IndexArgs, read_ok \in BOOLEAN :
    /\ load_email_by_index(index, read_ok)
    /\ last_op' = "loadAt"
    /\ trail' = pushed(trail, "loadAt", current_index)
    /\ last_arg' = index
    /\ mode_before' = current_mode
    /\ UNCHANGED <<ham_files, spam_files, ham_dir, spam_dir>>

\* A toggle whose else branch also selects spam.
other_mode_stuck(mode) == "spam"

\* The mode _toggle_mode switches to.
other_mode(mode) == IF mode = "ham" THEN "spam" ELSE "ham"

\* A toggle that keeps the index.
index_after_toggle_kept(index) == index

\* self.current_index after _toggle_mode.
index_after_toggle(index) == None

\* _toggle_mode
_toggle_mode ==
  /\ current_mode' = other_mode(current_mode)
  /\ mode_button' = (IF current_mode = "ham" THEN "Switch to HAM" ELSE "Switch to SPAM")
  /\ info_label' = PromptLabel(other_mode(current_mode))
  /\ current_index' = index_after_toggle(current_index)
  /\ prev_disabled' = TRUE
  /\ next_disabled' = TRUE
  /\ last_op' = "switchCategory"
  /\ trail' = pushed(trail, "switchCategory", current_index)
  /\ last_arg' = 0
  /\ last_read' = "none"
  /\ raised' = "none"
  /\ mode_before' = current_mode
  /\ UNCHANGED <<ham_files, spam_files, ham_dir, spam_dir, output>>

\* _load_random_email, were it to take the email it picks out of the list.
load_random_email_pop ==
  /\ last_op' = "loadRandom"
  /\ trail' = pushed(trail, "loadRandom", current_index)
  /\ mode_before' = current_mode
  /\ UNCHANGED <<ham_dir, spam_dir>>
  /\ IF randint(0, Len(file_list) - 1) = {}
     THEN /\ raised' = "ValueError"
          /\ last_arg' = 0
          /\ last_read' = "none"
          /\ UNCHANGED <<nav, ham_files, spam_files>>
     ELSE \E random_index \in randint(0, Len(file_list) - 1), read_ok \in BOOLEAN :
            /\ load_email_by_index(random_index, read_ok)
            /\ last_arg' = random_index
            /\ ham_files' = IF current_mode = "ham"
                            THEN SubSeq(ham_files, 1, random_index)
                                   \o SubSeq(ham_files, random_index + 2, Len(ham_files))
                            ELSE ham_files
            /\ spam_files' = IF current_mode = "spam"
                             THEN SubSeq(spam_files, 1, random_index)
                                    \o SubSeq(spam_files, random_index + 2, Len(spam_files))
                             ELSE spam_files

\* _load_random_email
_load_random_email ==
  /\ last_op' = "loadRandom"
  /\ trail' = pushed(trail, "loadRandom", current_index)
  /\ mode_before' = current_mode
  /\ UNCHANGED <<ham_files, spam_files, ham_dir, spam_dir>>
  /\ IF randint(0, Len(file_list) - 1) = {}
     THEN /\ raised' = "ValueError"
          /\ last_arg' = 0
          /\ last_read' = "none"
          /\ UNCHANGED nav
     ELSE \E random_index \in randint(0, Len(file_list) - 1), read_ok \in BOOLEAN :
            /\ load_email_by_index(random_index, read_ok)
            /\ last_arg' = random_index

\* The previous button's guard stopping at the second email.
has_previous_short(index) == index # None /\ index[1] > 1

\* The guard of _load_previous_email.
has_previous(index) == index # None /\ index[1] > 0

\* _load_previous_email, were it to wrap around from the first email to the last.
load_previous_email_wrap ==
  /\ last_op' = "loadPrevious"
  /\ trail' = pushed(trail, "loadPrevious", current_index)
  /\ mode_before' = current_mode
  /\ UNCHANGED <<ham_files, spam_files, ham_dir, spam_dir>>
  /\ IF current_index # None
     THEN \E read_ok \in BOOLEAN :
            /\ load_email_by_index((current_index[1] - 1) % Len(file_list), read_ok)
            /\ last_arg' = (current_index[1] - 1) % Len(file_list)
     ELSE /\ UNCHANGED nav
          /\ last_arg' = 0
          /\ last_read' = "none"
          /\ raised' = "none"

\* _load_previous_email
_load_previous_email ==
  /\ last_op' = "loadPrevious"
  /\ trail' = pushed(trail, "loadPrevious", current_index)
  /\ mode_before' = current_mode
  /\ UNCHANGED <<ham_files, spam_files, ham_dir, spam_dir>>
  /\ IF has_previous(current_index)
     THEN \E read_ok \in BOOLEAN :
            /\ load_email_by_index(current_index[1] - 1, read_ok)
            /\ last_arg' = current_index[1] - 1
     ELSE /\ UNCHANGED nav
          /\ last_arg' = 0
          /\ last_read' = "none"
          /\ raised' = "none"

\* The guard of _load_next_email stopping one email early.
has_next_short(index, list) == index # None /\ index[1] < Len(list) - 2

\* The guard of _load_next_email.
has_next(index, list) == index # None /\ index[1] < Len(list) - 1

\* _load_next_email, were it to go on to the other category after the last email.
load_next_email_rolls_over ==
  /\ last_op' = "loadNext"
  /\ trail' = pushed(trail, "loadNext", current_index)
  /\ mode_before' = current_mode
  /\ UNCHANGED <<ham_files, spam_files, ham_dir, spam_dir>>
  /\ IF has_next(current_index, file_list)
     THEN \E read_ok \in BOOLEAN :
            /\ load_email_by_index(current_index[1] + 1, read_ok)
            /\ last_arg' = current_index[1] + 1
     ELSE /\ current_mode' = (IF current_index = None THEN current_mode
                                                     ELSE other_mode(current_mode))
          /\ current_index' = None
          /\ UNCHANGED <<prev_disabled, next_disabled, mode_button, info_label, output>>
          /\ last_arg' = 0
          /\ last_read' = "none"
          /\ raised' = "none"

\* _load_next_email
_load_next_email ==
  /\ last_op' = "loadNext"
  /\ trail' = pushed(trail, "loadNext", current_index)
  /\ mode_before' = current_mode
  /\ UNCHANGED <<ham_files, spam_files, ham_dir, spam_dir>>
  /\ IF has_next(current_index, file_list)
     THEN \E read_ok \in BOOLEAN :
            /\ load_email_by_index(current_index[1] + 1, read_ok)
            /\ last_arg' = current_index[1] + 1
     ELSE /\ UNCHANGED nav
          /\ last_arg' = 0
          /\ last_read' = "none"
          /\ raised' = "none"

\* A viewer that starts on the spam list.
initial_mode_spam == "spam"

\* self.current_mode as __init__ sets it.
initial_mode == "ham"

\* EmailViewer.__init__, for any two sorted file lists.
Init ==
  /\ ham_files \in Catalogs
  /\ spam_files \in Catalogs
  /\ current_mode = initial_mode
  /\ current_index = None
  /\ prev_disabled = TRUE
  /\ next_disabled = TRUE
  /\ mode_button = "Switch to SPAM"
  /\ info_label = PromptLabel("ham")
  /\ output = [kind |-> "empty", file_name |-> ""]
  /\ last_op = "init"
  /\ last_arg = 0
  /\ last_read = "none"
  /\ raised = "none"
  /\ mode_before = "ham"
  /\ trail = <<>>
  /\ ham_dir = [exists |-> TRUE, files |-> ham_files]
  /\ spam_dir = [exists |-> TRUE, files |-> spam_files]

Next ==
  \/ _toggle_mode
  \/ _load_random_email
  \/ _load_email_by_index
  \/ _load_previous_email
  \/ _load_next_email

Spec == Init /\ [][Next]_vars

\* The handlers when no open()/read() fails.
NextReadsOk ==
  \/ _toggle_mode /\ last_read' # "failed"
  \/ _load_random_email /\ last_read' # "failed"
  \/ _load_email_by_index /\ last_read' # "failed"
  \/ _load_previous_email /\ last_read' # "failed"
  \/ _load_next_email /\ last_read' # "failed"

SpecReadsOk == Init /\ [][NextReadsOk]_vars

\* Clicks of the next button only, once it has been clicked.
OnlyNext ==
  /\ last_op \in {"loadAt", "loadNext"}
  /\ _load_next_email

\* Clicks of the previous button only, once it has been clicked.
OnlyPrevious ==
  /\ last_op \in {"loadAt", "loadPrevious"}
  /\ _load_previous_email

\* A category is chosen and an email loaded, then one of the two step buttons
\* is clicked again and again.
NextStepOnly ==
  \/ last_op = "init" /\ _toggle_mode
  \/ last_op \in {"init", "switchCategory"} /\ _load_email_by_index
  \/ OnlyNext
  \/ OnlyPrevious

SpecStepOnly ==
  Init /\ [][NextStepOnly]_vars /\ WF_vars(OnlyNext) /\ WF_vars(OnlyPrevious)

(***************************************************************************)
(* load_email_files: the listing of the two directories and the numeric    *)
(* sort of what they hold.  A file is held as its stem, a sequence of      *)
(* characters.                                                             *)
(***************************************************************************)

\* Largest number of files found under ham_dir.
MaxListed == 3

\* Largest number of files found under spam_dir.
MaxSpamListed == 2

\* The stems of the files a directory can hold: "1", "01", "10", "2", "-1",
\* "a" and "b1".
StemPool ==
  { <<"1">>, <<"0", "1">>, <<"1", "0">>, <<"2">>, <<"-", "1">>, <<"a">>,
    <<"b", "1">> }

\* The orders in which rglob can find up to max files with distinct stems.
Listings(max) ==
  UNION { {l \in [1..k -> StemPool] : \A i, j \in 1..k : i # j => l[i] # l[j]} :
          k \in 0..max }

\* A directory: missing, or existing with the files rglob finds in it.
Dirs(max) ==
  {[exists |-> FALSE, files |-> <<>>]} \cup
  {[exists |-> TRUE, files |-> l] : l \in Listings(max)}

\* The decimal digits int() accepts.
Digits == <<"0", "1", "2", "3", "4", "5", "6", "7", "8", "9">>

IsDigit(c) == \E d \in 1..Len(Digits) : Digits[d] = c

DigitValue(c) == (CHOOSE d \in 1..Len(Digits) : Digits[d] = c) - 1

\* The stem without a leading sign.
Unsigned(stem) ==
  IF stem # <<>> /\ stem[1] \in {"-", "+"} THEN Tail(stem) ELSE stem

\* Whether int(stem) returns (it raises ValueError otherwise): an optional
\* sign, then one or more digits.
int_parses(stem) ==
  /\ Unsigned(stem) # <<>>
  /\ \A i \in 1..Len(Unsigned(stem)) : IsDigit(Unsigned(stem)[i])

RECURSIVE DecimalValue(_)
\* The number a sequence of digits writes.
DecimalValue(digits) ==
  IF digits = <<>>
  THEN 0
  ELSE 10 * DecimalValue(SubSeq(digits, 1, Len(digits) - 1))
         + DigitValue(digits[Len(digits)])

\* int(stem), for a stem that parses.
int_value(stem) ==
  IF stem[1] = "-" THEN 0 - DecimalValue(Unsigned(stem)) ELSE DecimalValue(Unsigned(stem))

\* float('inf'), the key of a stem that is not a number.
Infinity == [finite |-> FALSE, value |-> 0]

\* sort_key returning 0 for a stem that is not a number.
sort_key_zero(stem) ==
  IF int_parses(stem)
  THEN [finite |-> TRUE, value |-> int_value(stem)]
  ELSE [finite |-> TRUE, value |-> 0]

\* sort_key
sort_key(stem) ==
  IF int_parses(stem)
  THEN [finite |-> TRUE, value |-> int_value(stem)]
  ELSE Infinity

\* a < b between two keys: every integer is below float('inf'), and
\* float('inf') is below nothing.
key_lt(a, b) == a.finite /\ (~b.finite \/ a.value < b.value)

RECURSIVE insert_sorted(_, _)
\* list, sorted, with x placed after every element whose key is not above x's.
insert_sorted(list, x) ==
  IF list # <<>> /\ key_lt(sort_key(x), sort_key(list[Len(list)]))
  THEN Append(insert_sorted(SubSeq(list, 1, Len(list) - 1), x), list[Len(list)])
  ELSE Append(list, x)

RECURSIVE sorted(_)
\* sorted(list, key=sort_key): ascending by key, equal keys in the order of list.
sorted(list) ==
  IF list = <<>>
  THEN <<>>
  ELSE insert_sorted(sorted(SubSeq(list, 1, Len(list) - 1)), list[Len(list)])

\* list(dir.rglob('*.txt')): the files found, none under a missing directory.
rglob(dir) == IF dir.exists THEN dir.files ELSE <<>>

\* load_email_files
load_email_files ==
  /\ last_op = "start"
  /\ ham_files' = sorted(rglob(ham_dir))
  /\ spam_files' = sorted(rglob(spam_dir))
  /\ last_op' = "load_email_files"
  /\ raised' = "none"
  /\ UNCHANGED <<nav, last_arg, last_read, mode_before, trail, ham_dir, spam_dir>>

\* The state before load_email_files is called, for any two directories.
InitCatalog ==
  /\ ham_dir \in Dirs(MaxListed)
  /\ spam_dir \in Dirs(MaxSpamListed)
  /\ ham_files = <<>>
  /\ spam_files = <<>>
  /\ current_mode = "ham"
  /\ current_index = None
  /\ prev_disabled = TRUE
  /\ next_disabled = TRUE
  /\ mode_button = "Switch to SPAM"
  /\ info_label = PromptLabel("ham")
  /\ output = [kind |-> "empty", file_name |-> ""]
  /\ last_op = "start"
  /\ last_arg = 0
  /\ last_read = "none"
  /\ raised = "none"
  /\ mode_before = "ham"
  /\ trail = <<>>

NextCatalog == load_email_files

SpecCatalog == InitCatalog /\ [][NextCatalog]_vars

\* The length of the active category's list.
n == Len(file_list)

\* C1: in every reachable state current_index is None or a valid index into
\* the active category's list, also after a failed read.
C1_IndexValid ==
  current_index = None \/ (0 <= current_index[1] /\ current_index[1] < n)

\* A failed read has positioned the viewer on the last email, the other
\* category being shorter.
C1_Witness ==
  /\ last_read = "failed"
  /\ current_index = Some(n - 1)
  /\ Len(ham_files) + Len(spam_files) < 2 * n

\* C2: loadRandom on an empty active category ends in a recoverable
\* EmptyCatalog outcome: no exception escapes the handler.
C2_EmptyCatalogRecoverable ==
  (last_op = "loadRandom" /\ n = 0) => raised = "none"

\* C3: after loadAt(index) with 0 <= index < n whose read failed, no exception
\* escapes, current_index = index, and the previous/next buttons are enabled
\* exactly as after a successful read.
C3_ReadErrorUpdatesNavigation ==
  (last_op = "loadAt" /\ last_read = "failed") =>
    /\ raised = "none"
    /\ current_index = Some(last_arg)
    /\ prev_disabled = ~(last_arg > 0)
    /\ next_disabled = ~(last_arg < n - 1)

\* C4: loadAt(i) with 0 <= i < n sets current_index = i, and the result of its
\* successful read enables previous iff i > 0, enables next iff i < n - 1, and
\* shows total = n.
C4_LoadAtResult ==
  (last_op = "loadAt" /\ 0 <= last_arg /\ last_arg < n) =>
    /\ current_index = Some(last_arg)
    /\ last_read = "ok" =>
         /\ prev_disabled = ~(last_arg > 0)
         /\ next_disabled = ~(last_arg < n - 1)
         /\ info_label.total = n
         /\ info_label.pos = last_arg + 1

\* loadAt(0) has succeeded on a single-email category.
C4_Witness ==
  /\ last_op = "loadAt"
  /\ last_arg = 0
  /\ n = 1
  /\ last_read = "ok"
  /\ prev_disabled
  /\ next_disabled

\* C5: loadPrevious changes nothing when current_index is None or 0, loadNext
\* changes nothing when current_index is None or n - 1, and no exception
\* escapes either handler in any state.
C5_StepNoOpAtEnds ==
  [][/\ (last_op' = "loadPrevious" /\ (current_index = None \/ current_index = Some(0)))
          => (UNCHANGED nav /\ last_read' = "none")
     /\ (last_op' = "loadNext" /\ (current_index = None \/ current_index = Some(n - 1)))
          => (UNCHANGED nav /\ last_read' = "none")
     /\ (last_op' \in {"loadPrevious", "loadNext"}) => raised' = "none"]_vars

\* loadPrevious has run on the first of several emails and read nothing.
C5_Witness ==
  /\ last_op = "loadPrevious"
  /\ last_read = "none"
  /\ current_index = Some(0)
  /\ n > 1

\* C6: switchCategory can run in every state, raises nothing, flips the mode
\* and sets current_index to None; the second of two consecutive calls
\* restores the mode the first one started from, with current_index None.
C6_SwitchCategory ==
  [][/\ ENABLED _toggle_mode
     /\ last_op' = "switchCategory" =>
          /\ raised' = "none"
          /\ current_mode = "ham" => current_mode' = "spam"
          /\ current_mode = "spam" => current_mode' = "ham"
          /\ current_index' = None
          /\ last_op = "switchCategory" => current_mode' = mode_before]_vars

\* Two consecutive switchCategory calls, the first from a positioned state
\* (the output still shows the email loaded before them).
C6_Witness ==
  /\ last_op = "switchCategory"
  /\ mode_before # current_mode
  /\ current_index = None
  /\ output.kind = "content"
  /\ info_label.mode = current_mode
  /\ mode_button = (IF current_mode = "ham" THEN "Switch to SPAM" ELSE "Switch to HAM")

\* C7: no handler ever ends with an exception escaping it.
C7_NoUnhandledException == raised = "none"

\* C8: loadAt(index) with index < 0 or index >= n changes neither the mode, the
\* index, the buttons, the label nor the output, and reads no file.
C8_OutOfRangeNoOp ==
  [][(last_op' = "loadAt" /\ (last_arg' < 0 \/ last_arg' >= n))
       => (UNCHANGED nav /\ last_read' = "none" /\ raised' = "none")]_vars

\* loadAt with a negative index has run in a positioned state.
C8_Witness ==
  /\ last_op = "loadAt"
  /\ last_arg < 0
  /\ current_index # None
  /\ n > 1

\* C9: loadNext from index i < n - 1 ends at i + 1, loadPrevious from i > 0
\* ends at i - 1, and neither moves the index by more than one.
C9_StepByOne ==
  [][/\ (last_op' = "loadNext" /\ current_index # None /\ current_index[1] < n - 1)
          => current_index' = Some(current_index[1] + 1)
     /\ (last_op' = "loadPrevious" /\ current_index # None /\ current_index[1] > 0)
          => current_index' = Some(current_index[1] - 1)
     /\ (last_op' \in {"loadPrevious", "loadNext"}) =>
          IF current_index = None
          THEN current_index' = None
          ELSE /\ current_index' # None
               /\ current_index'[1] - current_index[1] \in {0 - 1, 0, 1}]_vars

\* loadNext has moved the viewer to the one-before-last email.
C9_Witness ==
  /\ last_op = "loadNext"
  /\ last_read # "none"
  /\ n >= 3
  /\ current_index = Some(n - 2)

\* C10: loadRandom on a non-empty category leaves 0 <= current_index < n, and
\* each index of 0..n-1 is an index loadRandom can end on.
C10_RandomInRange ==
  /\ (last_op = "loadRandom" /\ n > 0) =>
       /\ current_index # None
       /\ 0 <= current_index[1] /\ current_index[1] < n
       /\ raised = "none"
  /\ n > 0 => \A i \in 0..(n - 1) :
                ENABLED (_load_random_email /\ current_index' = Some(i))

\* loadRandom has picked the last of several emails.
C10_Witness ==
  /\ last_op = "loadRandom"
  /\ n > 1
  /\ current_index = Some(n - 1)
  /\ last_arg = n - 1

\* The place of file f in list.
PlaceIn(list, f) == CHOOSE i \in 1..Len(list) : list[i] = f

\* out holds the files of found, each once, ascending by the integer of the
\* stem, the stems that are no integers after all the others and in the order
\* of found.
NumericOrder(found, out) ==
  /\ Len(out) = Len(found)
  /\ \A i \in 1..Len(found) : \E j \in 1..Len(out) : out[j] = found[i]
  /\ \A i, j \in 1..Len(out) :
       i < j =>
         IF int_parses(out[i])
         THEN int_parses(out[j]) => int_value(out[i]) <= int_value(out[j])
         ELSE /\ ~int_parses(out[j])
              /\ PlaceIn(found, out[i]) < PlaceIn(found, out[j])

C12_MissingDirectoryFails ==
  last_op = "load_email_files" =>
    /\ (~ham_dir.exists \/ ~spam_dir.exists) => raised = "DirectoryNotFound"
    /\ (ham_dir.exists /\ spam_dir.exists /\ ham_dir.files = <<>>) =>
         (raised = "none" /\ ham_files = <<>>)

\* C13: a newly constructed viewer is in ham mode with current_index None and
\* both the previous and the next button disabled.
C13_InitialState ==
  last_op = "init" =>
    /\ current_mode = "ham"
    /\ current_index = None
    /\ prev_disabled
    /\ next_disabled

\* A newly constructed viewer over two non-empty lists.
C13_Witness ==
  /\ last_op = "init"
  /\ trail = <<>>
  /\ ham_files # <<>>
  /\ spam_files # <<>>

\* C14: no handler changes the contents, the length or the order of
\* ham_files or spam_files.
C14_CatalogReadOnly ==
  [][ham_files' = ham_files /\ spam_files' = spam_files]_vars

\* A random email of the spam list has been loaded after a switch, and both
\* lists are as they were found.
C14_Witness ==
  /\ last_op = "loadRandom"
  /\ trail[1].op = "switchCategory"
  /\ current_mode = "spam"
  /\ last_read = "ok"
  /\ Len(spam_files) = 2
  /\ spam_files = spam_dir.files
  /\ ham_files = ham_dir.files

\* C15: when no read fails, the previous button is enabled iff current_index
\* is an integer above 0 and the next button iff it is an integer below n - 1;
\* both are disabled right after every switchCategory.
C15_ButtonsFollowIndex ==
  /\ ~prev_disabled <=> (current_index # None /\ current_index[1] > 0)
  /\ ~next_disabled <=> (current_index # None /\ current_index[1] < n - 1)
  /\ last_op = "switchCategory" => (prev_disabled /\ next_disabled)

\* The viewer stands on a middle email with both buttons enabled.
C15_Witness ==
  /\ current_index # None
  /\ current_index[1] > 0
  /\ current_index[1] < n - 1
  /\ ~prev_disabled
  /\ ~next_disabled
  /\ last_read = "ok"

\* C16: loadNext then loadPrevious from index i ends on i when i < n - 1, and
\* one below i when i = n - 1 and n >= 2; loadPrevious then loadNext from i
\* ends on i when i > 0, and one above i when i = 0 and n >= 2.
C16_StepPairs ==
  (Len(trail) = 2 /\ trail[1].index # None) =>
    /\ (trail[1].op = "loadNext" /\ trail[2].op = "loadPrevious") =>
         IF trail[1].index[1] < n - 1
         THEN current_index = trail[1].index
         ELSE n >= 2 => current_index = Some(trail[1].index[1] - 1)
    /\ (trail[1].op = "loadPrevious" /\ trail[2].op = "loadNext") =>
         IF trail[1].index[1] > 0
         THEN current_index = trail[1].index
         ELSE n >= 2 => current_index = Some(trail[1].index[1] + 1)

\* loadNext at the last of several emails, then loadPrevious, has left the
\* viewer one email before the last.
C16_Witness ==
  /\ Len(trail) = 2
  /\ trail[1] = [op |-> "loadNext", index |-> Some(n - 1)]
  /\ trail[2] = [op |-> "loadPrevious", index |-> Some(n - 1)]
  /\ n >= 2
  /\ current_index = Some(n - 2)

\* C17: loadAt, loadRandom, loadPrevious and loadNext leave current_mode as
\* it is; only switchCategory changes it.
C17_OnlySwitchChangesMode ==
  [][/\ (last_op' \in {"loadAt", "loadRandom", "loadPrevious", "loadNext"})
          => current_mode' = current_mode
     /\ current_mode' # current_mode => last_op' = "switchCategory"]_vars

\* In spam mode, loadNext has run at the last email.
C17_Witness ==
  /\ last_op = "loadNext"
  /\ current_mode = "spam"
  /\ current_index = Some(n - 1)
  /\ Len(trail) = 2
  /\ trail[2].index = Some(n - 1)

\* C18: with only loadNext clicked from a positioned state, each click below
\* n - 1 moves the index up by exactly one, and the index reaches n - 1 and
\* stays there for ever; with only loadPrevious, each click above 0 moves it
\* down by exactly one, and it reaches 0 and stays there for ever.
C18_StepsReachTheEnd ==
  /\ [][/\ (last_op' = "loadNext" /\ current_index # None) =>
             current_index' = (IF current_index[1] < n - 1
                               THEN Some(current_index[1] + 1) ELSE current_index)
        /\ (last_op' = "loadPrevious" /\ current_index # None) =>
             current_index' = (IF current_index[1] > 0
                               THEN Some(current_index[1] - 1) ELSE current_index)]_vars
  /\ (last_op = "loadNext" /\ current_index # None) ~> [](current_index = Some(n - 1))
  /\ (last_op = "loadPrevious" /\ current_index # None) ~> [](current_index = Some(0))

\* loadPrevious has been clicked twice running and has brought the viewer
\* from the third email to the first.
C18_Witness ==
  /\ Len(trail) = 2
  /\ trail[1] = [op |-> "loadPrevious", index |-> Some(2)]
  /\ trail[2] = [op |-> "loadPrevious", index |-> Some(1)]
  /\ current_index = Some(0)

====
